---- MODULE Spec2Model ----
(***************************************************************************)
(* Model of src/questions.py: the module body (run counter -> BASE_URL),   *)
(* get_cyclic_index, the scope_files list and the four prompt builders.    *)
(*                                                                         *)
(* Python str values are TLA+ strings (\o, Len and SubSeq act on their     *)
(* characters).  Python values that reach a builder or int() are tagged    *)
(* records: [t |-> "str", s |-> ...], [t |-> "int", n |-> ...],            *)
(* [t |-> "NoneType"].                                                     *)
(*                                                                         *)
(* Spec has one sequential client of the loaded module; SpecConcurrent has *)
(* NumCallers threads whose calls interleave.                              *)
(***************************************************************************)
EXTENDS Integers, Sequences, FiniteSets, TLC

\* ---------------------------------------------------------------- bounds
\* longest GITHUB_RUN_NUMBER value, in characters
MaxEnvLen == 2
\* the explored run arguments of get_cyclic_index are -MaxRun..MaxRun
MaxRun == 33
\* the explored small max_index arguments are -MaxSmallIndex..MaxSmallIndex
MaxSmallIndex == 3
\* a builder argument is the concatenation of at most MaxArgWords words
MaxArgWords == 2
\* the concurrent client runs NumCallers threads
NumCallers == 2

\* ------------------------------------------------------ module constants
MAX_REPO == 30
SOURCE_REPO == "AElfProject/AElf"
REPO_NAME == "aelf"
\* mutant of DEFAULT_MAX_INDEX: the default of max_index is MAX_REPO
DEFAULT_MAX_INDEX_IS_MAX_REPO == MAX_REPO

\* default of the max_index parameter of get_cyclic_index
DEFAULT_MAX_INDEX == 100

\* ------------------------------------------------------- Python values
PyStr(s) == [t |-> "str", s |-> s]
PyIntV(n) == [t |-> "int", n |-> n]
PyNone == [t |-> "NoneType"]

\* outcome of evaluating an expression or a call
Returned(v) == [raised |-> "", value |-> v]
Raised(e) == [raised |-> e, value |-> PyNone]

CharAt(s, i) == SubSeq(s, i, i)

\* the two quote characters
SQ == "'"
DQ == "\""
\* the grave accent, and the code fence made of three
BT == SubSeq("`'", 1, 1)
BT3 == BT \o BT \o BT

\* ------------------------------------------------------------ int(str)
Whitespace == {" ", "\t", "\n", "\r", "\f"}
Digits == {"0", "1", "2", "3", "4", "5", "6", "7", "8", "9"}

DigitValue(c) ==
    CASE c = "0" -> 0 [] c = "1" -> 1 [] c = "2" -> 2 [] c = "3" -> 3
      [] c = "4" -> 4 [] c = "5" -> 5 [] c = "6" -> 6 [] c = "7" -> 7
      [] c = "8" -> 8 [] c = "9" -> 9

RECURSIVE LStrip(_)
LStrip(s) ==
    IF Len(s) > 0 /\ CharAt(s, 1) \in Whitespace
    THEN LStrip(SubSeq(s, 2, Len(s)))
    ELSE s

RECURSIVE RStrip(_)
RStrip(s) ==
    IF Len(s) > 0 /\ CharAt(s, Len(s)) \in Whitespace
    THEN RStrip(SubSeq(s, 1, Len(s) - 1))
    ELSE s

Strip(s) == RStrip(LStrip(s))

HasSign(s) == Len(s) > 0 /\ CharAt(s, 1) \in {"+", "-"}

\* the digit part of a stripped literal, after the optional sign
Magnitude(s) == IF HasSign(s) THEN SubSeq(s, 2, Len(s)) ELSE s

\* decimal digits, single underscores allowed between two digits only
IsDigitGroup(m) ==
    /\ Len(m) > 0
    /\ CharAt(m, 1) \in Digits
    /\ CharAt(m, Len(m)) \in Digits
    /\ \A i \in 1..Len(m) :
          \/ CharAt(m, i) \in Digits
          \/ /\ CharAt(m, i) = "_"
             /\ i > 1 /\ i < Len(m)
             /\ CharAt(m, i - 1) \in Digits
             /\ CharAt(m, i + 1) \in Digits

IsIntLiteral(s) == IsDigitGroup(Magnitude(Strip(s)))

RECURSIVE MagnitudeValue(_)
MagnitudeValue(m) ==
    IF Len(m) = 0 THEN 0
    ELSE IF CharAt(m, Len(m)) = "_"
         THEN MagnitudeValue(SubSeq(m, 1, Len(m) - 1))
         ELSE 10 * MagnitudeValue(SubSeq(m, 1, Len(m) - 1))
                 + DigitValue(CharAt(m, Len(m)))

IntLiteralValue(s) ==
    LET b == Strip(s)
    IN  IF HasSign(b) /\ CharAt(b, 1) = "-"
        THEN 0 - MagnitudeValue(Magnitude(b))
        ELSE MagnitudeValue(Magnitude(b))

\* mutant of PyInt: a text that is no integer literal silently counts as 0
PyIntLenient(x) ==
    CASE x.t = "int" -> Returned(PyIntV(x.n))
      [] x.t = "str" -> IF IsIntLiteral(x.s)
                        THEN Returned(PyIntV(IntLiteralValue(x.s)))
                        ELSE Returned(PyIntV(0))
      [] OTHER -> Raised("TypeError")

\* int(x): an int is returned as is, a str is parsed in base 10
PyInt(x) ==
    CASE x.t = "int" -> Returned(PyIntV(x.n))
      [] x.t = "str" -> IF IsIntLiteral(x.s)
                        THEN Returned(PyIntV(IntLiteralValue(x.s)))
                        ELSE Raised("ValueError")
      [] OTHER -> Raised("TypeError")

\* ---------------------------------------------------------- a % b, ints
\* mutant of PyMod: the truncating remainder, with the sign of the dividend
PyModTruncating(a, b) ==
    LET d == IF b < 0 THEN 0 - b ELSE b
    IN  IF a >= 0 THEN a % d ELSE 0 - ((0 - a) % d)

\* the remainder of Python has the sign of the divisor; b # 0
PyMod(a, b) ==
    IF b > 0 THEN a % b ELSE 0 - ((0 - a) % (0 - b))

\* ------------------------------------------------------- str(int), 03d
DigitChar(d) == CharAt("0123456789", d + 1)

RECURSIVE NatToStr(_)
NatToStr(n) ==
    IF n < 10 THEN DigitChar(n)
    ELSE NatToStr(n \div 10) \o DigitChar(n % 10)

RECURSIVE Zeros(_)
Zeros(k) == IF k <= 0 THEN "" ELSE "0" \o Zeros(k - 1)

\* mutant of Format03d: the plain decimal text, without the zero padding
Format03dUnpadded(n) ==
    (IF n < 0 THEN "-" ELSE "") \o NatToStr(IF n < 0 THEN 0 - n ELSE n)

\* format(n, "03d"): sign, then zero padding up to a total width of 3
Format03d(n) ==
    LET sign == IF n < 0 THEN "-" ELSE ""
        digs == NatToStr(IF n < 0 THEN 0 - n ELSE n)
    IN  sign \o Zeros(3 - Len(sign) - Len(digs)) \o digs

\* ------------------------------------------------------ get_cyclic_index
\* mutant of get_cyclic_index: the run is not shifted down before the
\* remainder, int(run_number) % max_index + 1
get_cyclic_index_unshifted(run_number, max_index) ==
    LET parsed == PyInt(run_number)
    IN  IF parsed.raised # "" THEN parsed
        ELSE IF max_index = 0 THEN Raised("ZeroDivisionError")
        ELSE Returned(PyIntV(PyMod(parsed.value.n, max_index) + 1))

\* mutant of get_cyclic_index: the plain remainder, which is 0 at a multiple
\* of max_index
get_cyclic_index_zero_based(run_number, max_index) ==
    LET parsed == PyInt(run_number)
    IN  IF parsed.raised # "" THEN parsed
        ELSE IF max_index = 0 THEN Raised("ZeroDivisionError")
        ELSE Returned(PyIntV(PyMod(parsed.value.n, max_index)))

\* mutant of get_cyclic_index: a run below 1 is taken as run 1
get_cyclic_index_clamped(run_number, max_index) ==
    LET parsed == PyInt(run_number)
    IN  IF parsed.raised # "" THEN parsed
        ELSE IF max_index = 0 THEN Raised("ZeroDivisionError")
        ELSE IF parsed.value.n < 1 THEN Returned(PyIntV(1))
        ELSE Returned(PyIntV(PyMod(parsed.value.n - 1, max_index) + 1))

\* mutant of get_cyclic_index: a negative run is taken by its magnitude
get_cyclic_index_abs(run_number, max_index) ==
    LET parsed == PyInt(run_number)
    IN  IF parsed.raised # "" THEN parsed
        ELSE IF max_index = 0 THEN Raised("ZeroDivisionError")
        ELSE Returned(PyIntV(PyMod((IF parsed.value.n < 0
                                    THEN 0 - parsed.value.n
                                    ELSE parsed.value.n) - 1, max_index) + 1))

\* return (int(run_number) - 1) % max_index + 1
get_cyclic_index(run_number, max_index) ==
    LET parsed == PyInt(run_number)
    IN  IF parsed.raised # "" THEN parsed
        ELSE IF max_index = 0 THEN Raised("ZeroDivisionError")
        ELSE Returned(PyIntV(PyMod(parsed.value.n - 1, max_index) + 1))

\* ------------------------------------------------------------ scope_files
\* the list literal of the module body, in source order (316 entries)
SCOPE_FILES_LITERAL == <<
    "contract/AElf.Contracts.Association/Association.cs",
    "contract/AElf.Contracts.Association/AssociationConstants.cs",
    "contract/AElf.Contracts.Association/AssociationContract_ACS1_TransactionFeeProvider.cs",
    "contract/AElf.Contracts.Association/AssociationReferenceState.cs",
    "contract/AElf.Contracts.Association/AssociationState.cs",
    "contract/AElf.Contracts.Association/Association_Extensions.cs",
    "contract/AElf.Contracts.Association/Association_Helper.cs",
    "contract/AElf.Contracts.Association/OrganizationMemberList.cs",
    "contract/AElf.Contracts.Configuration/ConfigurationContract.cs",
    "contract/AElf.Contracts.Configuration/ConfigurationContract_ACS1_TransactionFeeProvider.cs",
    "contract/AElf.Contracts.Configuration/ConfigurationContract_Helper.cs",
    "contract/AElf.Contracts.Configuration/ConfigurationReferenceState.cs",
    "contract/AElf.Contracts.Configuration/ConfigurationState.cs",
    "contract/AElf.Contracts.Consensus.AEDPoS/AEDPoSContract.cs",
    "contract/AElf.Contracts.Consensus.AEDPoS/AEDPoSContractConstants.cs",
    "contract/AElf.Contracts.Consensus.AEDPoS/AEDPoSContract_ACS11_CrossChainInformationProvider.cs",
    "contract/AElf.Contracts.Consensus.AEDPoS/AEDPoSContract_ACS1_TransactionFeeProvider.cs",
    "contract/AElf.Contracts.Consensus.AEDPoS/AEDPoSContract_ACS4_ConsensusInformationProvider.cs",
    "contract/AElf.Contracts.Consensus.AEDPoS/AEDPoSContract_CacheFileds.cs",
    "contract/AElf.Contracts.Consensus.AEDPoS/AEDPoSContract_GetConsensusBlockExtraData.cs",
    "contract/AElf.Contracts.Consensus.AEDPoS/AEDPoSContract_GetConsensusCommand.cs",
    "contract/AElf.Contracts.Consensus.AEDPoS/AEDPoSContract_GetMaximumBlocksCount.cs",
    "contract/AElf.Contracts.Consensus.AEDPoS/AEDPoSContract_HelpMethods.cs",
    "contract/AElf.Contracts.Consensus.AEDPoS/AEDPoSContract_LIB.cs",
    "contract/AElf.Contracts.Consensus.AEDPoS/AEDPoSContract_MaximumMinersCount.cs",
    "contract/AElf.Contracts.Consensus.AEDPoS/AEDPoSContract_NextTerm.cs",
    "contract/AElf.Contracts.Consensus.AEDPoS/AEDPoSContract_ProcessConsensusInformation.cs",
    "contract/AElf.Contracts.Consensus.AEDPoS/AEDPoSContract_SecretSharing.cs",
    "contract/AElf.Contracts.Consensus.AEDPoS/AEDPoSContract_SideChainDividendsPool.cs",
    "contract/AElf.Contracts.Consensus.AEDPoS/AEDPoSContract_Validation.cs",
    "contract/AElf.Contracts.Consensus.AEDPoS/AEDPoSContract_ValidationService.cs",
    "contract/AElf.Contracts.Consensus.AEDPoS/AEDPoSContract_ViewMethods.cs",
    "contract/AElf.Contracts.Consensus.AEDPoS/AElfConsensusContractState.cs",
    "contract/AElf.Contracts.Consensus.AEDPoS/ConsensusCommandGeneration/ConsensusBehaviourProviderBase.cs",
    "contract/AElf.Contracts.Consensus.AEDPoS/ConsensusCommandGeneration/ConsensusCommandProvider.cs",
    "contract/AElf.Contracts.Consensus.AEDPoS/ConsensusCommandGeneration/MainChainConsensusBehaviourProvider.cs",
    "contract/AElf.Contracts.Consensus.AEDPoS/ConsensusCommandGeneration/MiningTimeArrangingService.cs",
    "contract/AElf.Contracts.Consensus.AEDPoS/ConsensusCommandGeneration/SideChainConsensusBehaviourProvider.cs",
    "contract/AElf.Contracts.Consensus.AEDPoS/ConsensusCommandGeneration/Strategies/CommandStrategyBase.cs",
    "contract/AElf.Contracts.Consensus.AEDPoS/ConsensusCommandGeneration/Strategies/FirstRoundCommandStrategy.cs",
    "contract/AElf.Contracts.Consensus.AEDPoS/ConsensusCommandGeneration/Strategies/ICommandStrategy.cs",
    "contract/AElf.Contracts.Consensus.AEDPoS/ConsensusCommandGeneration/Strategies/NormalBlockCommandStrategy.cs",
    "contract/AElf.Contracts.Consensus.AEDPoS/ConsensusCommandGeneration/Strategies/TerminateRoundCommandStrategy.cs",
    "contract/AElf.Contracts.Consensus.AEDPoS/ConsensusCommandGeneration/Strategies/TinyBlockCommandStrategy.cs",
    "contract/AElf.Contracts.Consensus.AEDPoS/ConsensusHeaderInfoValidationProviders/ConsensusValidationContext.cs",
    "contract/AElf.Contracts.Consensus.AEDPoS/ConsensusHeaderInfoValidationProviders/ContinuousBlocksValidationProvider.cs",
    "contract/AElf.Contracts.Consensus.AEDPoS/ConsensusHeaderInfoValidationProviders/IHeaderInformationValidationProvider.cs",
    "contract/AElf.Contracts.Consensus.AEDPoS/ConsensusHeaderInfoValidationProviders/LibInformationValidationProvider.cs",
    "contract/AElf.Contracts.Consensus.AEDPoS/ConsensusHeaderInfoValidationProviders/MiningPermissionValidationProvider.cs",
    "contract/AElf.Contracts.Consensus.AEDPoS/ConsensusHeaderInfoValidationProviders/NextRoundMiningOrderValidationProvider.cs",
    "contract/AElf.Contracts.Consensus.AEDPoS/ConsensusHeaderInfoValidationProviders/RoundTerminateValidationProvider.cs",
    "contract/AElf.Contracts.Consensus.AEDPoS/ConsensusHeaderInfoValidationProviders/TimeSlotValidationProvider.cs",
    "contract/AElf.Contracts.Consensus.AEDPoS/ConsensusHeaderInfoValidationProviders/UpdateValueValidationProvider.cs",
    "contract/AElf.Contracts.Consensus.AEDPoS/ContractsReferences.cs",
    "contract/AElf.Contracts.Consensus.AEDPoS/Types/MinerList.cs",
    "contract/AElf.Contracts.Consensus.AEDPoS/Types/NextRoundInput.cs",
    "contract/AElf.Contracts.Consensus.AEDPoS/Types/NextTermInput.cs",
    "contract/AElf.Contracts.Consensus.AEDPoS/Types/Round.cs",
    "contract/AElf.Contracts.Consensus.AEDPoS/Types/Round_ApplyNormalConsensusData.cs",
    "contract/AElf.Contracts.Consensus.AEDPoS/Types/Round_ArrangeAbnormalMiningTime.cs",
    "contract/AElf.Contracts.Consensus.AEDPoS/Types/Round_ExtractInformationToUpdateConsensus.cs",
    "contract/AElf.Contracts.Consensus.AEDPoS/Types/Round_Generation.cs",
    "contract/AElf.Contracts.Consensus.AEDPoS/Types/Round_GetLighterRound.cs",
    "contract/AElf.Contracts.Consensus.AEDPoS/Types/Round_GetLogs.cs",
    "contract/AElf.Contracts.Consensus.AEDPoS/Types/Round_ImpliedIrreversibleBlockHeight.cs",
    "contract/AElf.Contracts.Consensus.AEDPoS/Types/Round_Recover.cs",
    "contract/AElf.Contracts.Consensus.AEDPoS/Types/Round_Simplify.cs",
    "contract/AElf.Contracts.CrossChain/CrossChainContract.cs",
    "contract/AElf.Contracts.CrossChain/CrossChainContractState.cs",
    "contract/AElf.Contracts.CrossChain/CrossChainContract_ACS1_TransactionFeeProvider.cs",
    "contract/AElf.Contracts.CrossChain/CrossChainContract_Constants.cs",
    "contract/AElf.Contracts.CrossChain/CrossChainContract_Helper.cs",
    "contract/AElf.Contracts.CrossChain/CrossChainContract_View.cs",
    "contract/AElf.Contracts.CrossChain/CrossChainReferenceState.cs",
    "contract/AElf.Contracts.Economic/EconomicContract.cs",
    "contract/AElf.Contracts.Economic/EconomicContractConstants.cs",
    "contract/AElf.Contracts.Economic/EconomicContractState.cs",
    "contract/AElf.Contracts.Economic/EconomicContract_ACS1_TransactionFeeProvider.cs",
    "contract/AElf.Contracts.Election/ElectionContractConstants.cs",
    "contract/AElf.Contracts.Election/ElectionContractReferenceState.cs",
    "contract/AElf.Contracts.Election/ElectionContractState.cs",
    "contract/AElf.Contracts.Election/ElectionContract_ACS1_TransactionFeeProvider.cs",
    "contract/AElf.Contracts.Election/ElectionContract_Candidate.cs",
    "contract/AElf.Contracts.Election/ElectionContract_Elector.cs",
    "contract/AElf.Contracts.Election/ElectionContract_Maintainence.cs",
    "contract/AElf.Contracts.Election/TimestampHelper.cs",
    "contract/AElf.Contracts.Election/ViewMethods.cs",
    "contract/AElf.Contracts.Genesis/BasicContractZero.cs",
    "contract/AElf.Contracts.Genesis/BasicContractZeroContract_ACS1_TransactionFeeProvider.cs",
    "contract/AElf.Contracts.Genesis/BasicContractZeroReferenceState.cs",
    "contract/AElf.Contracts.Genesis/BasicContractZeroState.cs",
    "contract/AElf.Contracts.Genesis/BasicContractZero_Constants.cs",
    "contract/AElf.Contracts.Genesis/BasicContractZero_Helper.cs",
    "contract/AElf.Contracts.MultiToken/TokenContractConstants.cs",
    "contract/AElf.Contracts.MultiToken/TokenContractReferenceState.cs",
    "contract/AElf.Contracts.MultiToken/TokenContractState.cs",
    "contract/AElf.Contracts.MultiToken/TokenContractState_ChargeFee.cs",
    "contract/AElf.Contracts.MultiToken/TokenContract_ACS1_MethodFeeProvider.cs",
    "contract/AElf.Contracts.MultiToken/TokenContract_ACS2_StatePathsProvider.cs",
    "contract/AElf.Contracts.MultiToken/TokenContract_Actions.cs",
    "contract/AElf.Contracts.MultiToken/TokenContract_CacheFileds.cs",
    "contract/AElf.Contracts.MultiToken/TokenContract_Delegation.cs",
    "contract/AElf.Contracts.MultiToken/TokenContract_Fee_Calculate_Coefficient.cs",
    "contract/AElf.Contracts.MultiToken/TokenContract_Fees.cs",
    "contract/AElf.Contracts.MultiToken/TokenContract_Helper.cs",
    "contract/AElf.Contracts.MultiToken/TokenContract_Method_Authorization.cs",
    "contract/AElf.Contracts.MultiToken/TokenContract_NFTHelper.cs",
    "contract/AElf.Contracts.MultiToken/TokenContract_NFT_Actions.cs",
    "contract/AElf.Contracts.MultiToken/TokenContract_Views.cs",
    "contract/AElf.Contracts.NFT/NFTContractConstants.cs",
    "contract/AElf.Contracts.NFT/NFTContractReferenceState.cs",
    "contract/AElf.Contracts.NFT/NFTContractState.cs",
    "contract/AElf.Contracts.NFT/NFTContract_ACS1.cs",
    "contract/AElf.Contracts.NFT/NFTContract_Create.cs",
    "contract/AElf.Contracts.NFT/NFTContract_Helpers.cs",
    "contract/AElf.Contracts.NFT/NFTContract_UseChain.cs",
    "contract/AElf.Contracts.NFT/NFTContract_View.cs",
    "contract/AElf.Contracts.Parliament/Parliament.cs",
    "contract/AElf.Contracts.Parliament/ParliamentConstants.cs",
    "contract/AElf.Contracts.Parliament/ParliamentContract_ACS1_TransactionFeeProvider.cs",
    "contract/AElf.Contracts.Parliament/ParliamentState.cs",
    "contract/AElf.Contracts.Parliament/Parliament_Constants.cs",
    "contract/AElf.Contracts.Parliament/Parliament_Helper.cs",
    "contract/AElf.Contracts.Profit/ContractsReferences.cs",
    "contract/AElf.Contracts.Profit/Models/RemovedDetails.cs",
    "contract/AElf.Contracts.Profit/ProfitContract.cs",
    "contract/AElf.Contracts.Profit/ProfitContractConstants.cs",
    "contract/AElf.Contracts.Profit/ProfitContractState.cs",
    "contract/AElf.Contracts.Profit/ProfitContract_ACS1_TransactionFeeProvider.cs",
    "contract/AElf.Contracts.Profit/ViewMethods.cs",
    "contract/AElf.Contracts.Referendum/ProposerWhiteListExtensions.cs",
    "contract/AElf.Contracts.Referendum/Referendum.cs",
    "contract/AElf.Contracts.Referendum/ReferendumConstants.cs",
    "contract/AElf.Contracts.Referendum/ReferendumContract_ACS1_TransactionFeeProvider.cs",
    "contract/AElf.Contracts.Referendum/ReferendumState.cs",
    "contract/AElf.Contracts.Referendum/Referendum_Helper.cs",
    "contract/AElf.Contracts.TokenConverter/BancorHelper.cs",
    "contract/AElf.Contracts.TokenConverter/InvalidValueException.cs",
    "contract/AElf.Contracts.TokenConverter/TokenConvert_Views.cs",
    "contract/AElf.Contracts.TokenConverter/TokenConverterContract.cs",
    "contract/AElf.Contracts.TokenConverter/TokenConverterContractState.cs",
    "contract/AElf.Contracts.TokenConverter/TokenConverterContract_ACS1_TransactionFeeProvider.cs",
    "contract/AElf.Contracts.TokenHolder/ContractsReferences.cs",
    "contract/AElf.Contracts.TokenHolder/TokenHolderContract.cs",
    "contract/AElf.Contracts.TokenHolder/TokenHolderContractState.cs",
    "contract/AElf.Contracts.TokenHolder/TokenHolderContract_ACS1_TransactionFeeProvider.cs",
    "contract/AElf.Contracts.Treasury/ContractsReferences.cs",
    "contract/AElf.Contracts.Treasury/TreasuryContract.cs",
    "contract/AElf.Contracts.Treasury/TreasuryContractConstants.cs",
    "contract/AElf.Contracts.Treasury/TreasuryContractState.cs",
    "contract/AElf.Contracts.Treasury/TreasuryContract_ACS1_TransactionFeeProvider.cs",
    "contract/AElf.Contracts.Vote/ContractsReferences.cs",
    "contract/AElf.Contracts.Vote/ViewMethods.cs",
    "contract/AElf.Contracts.Vote/VoteContract.cs",
    "contract/AElf.Contracts.Vote/VoteContractConstants.cs",
    "contract/AElf.Contracts.Vote/VoteContractState.cs",
    "contract/AElf.Contracts.Vote/VoteContract_ACS1_TransactionFeeProvider.cs",
    "contract/AElf.Contracts.Vote/VoteExtensions.cs",
    "contract/AElf.Contracts.Association/Association.cs",
    "contract/AElf.Contracts.Association/AssociationConstants.cs",
    "contract/AElf.Contracts.Association/AssociationContract_ACS1_TransactionFeeProvider.cs",
    "contract/AElf.Contracts.Association/AssociationReferenceState.cs",
    "contract/AElf.Contracts.Association/AssociationState.cs",
    "contract/AElf.Contracts.Association/Association_Extensions.cs",
    "contract/AElf.Contracts.Association/Association_Helper.cs",
    "contract/AElf.Contracts.Association/OrganizationMemberList.cs",
    "contract/AElf.Contracts.Configuration/ConfigurationContract.cs",
    "contract/AElf.Contracts.Configuration/ConfigurationContract_ACS1_TransactionFeeProvider.cs",
    "contract/AElf.Contracts.Configuration/ConfigurationContract_Helper.cs",
    "contract/AElf.Contracts.Configuration/ConfigurationReferenceState.cs",
    "contract/AElf.Contracts.Configuration/ConfigurationState.cs",
    "contract/AElf.Contracts.Consensus.AEDPoS/AEDPoSContract.cs",
    "contract/AElf.Contracts.Consensus.AEDPoS/AEDPoSContractConstants.cs",
    "contract/AElf.Contracts.Consensus.AEDPoS/AEDPoSContract_ACS11_CrossChainInformationProvider.cs",
    "contract/AElf.Contracts.Consensus.AEDPoS/AEDPoSContract_ACS1_TransactionFeeProvider.cs",
    "contract/AElf.Contracts.Consensus.AEDPoS/AEDPoSContract_ACS4_ConsensusInformationProvider.cs",
    "contract/AElf.Contracts.Consensus.AEDPoS/AEDPoSContract_CacheFileds.cs",
    "contract/AElf.Contracts.Consensus.AEDPoS/AEDPoSContract_GetConsensusBlockExtraData.cs",
    "contract/AElf.Contracts.Consensus.AEDPoS/AEDPoSContract_GetConsensusCommand.cs",
    "contract/AElf.Contracts.Consensus.AEDPoS/AEDPoSContract_GetMaximumBlocksCount.cs",
    "contract/AElf.Contracts.Consensus.AEDPoS/AEDPoSContract_HelpMethods.cs",
    "contract/AElf.Contracts.Consensus.AEDPoS/AEDPoSContract_LIB.cs",
    "contract/AElf.Contracts.Consensus.AEDPoS/AEDPoSContract_MaximumMinersCount.cs",
    "contract/AElf.Contracts.Consensus.AEDPoS/AEDPoSContract_NextTerm.cs",
    "contract/AElf.Contracts.Consensus.AEDPoS/AEDPoSContract_ProcessConsensusInformation.cs",
    "contract/AElf.Contracts.Consensus.AEDPoS/AEDPoSContract_SecretSharing.cs",
    "contract/AElf.Contracts.Consensus.AEDPoS/AEDPoSContract_SideChainDividendsPool.cs",
    "contract/AElf.Contracts.Consensus.AEDPoS/AEDPoSContract_Validation.cs",
    "contract/AElf.Contracts.Consensus.AEDPoS/AEDPoSContract_ValidationService.cs",
    "contract/AElf.Contracts.Consensus.AEDPoS/AEDPoSContract_ViewMethods.cs",
    "contract/AElf.Contracts.Consensus.AEDPoS/AElfConsensusContractState.cs",
    "contract/AElf.Contracts.Consensus.AEDPoS/ConsensusCommandGeneration/ConsensusBehaviourProviderBase.cs",
    "contract/AElf.Contracts.Consensus.AEDPoS/ConsensusCommandGeneration/ConsensusCommandProvider.cs",
    "contract/AElf.Contracts.Consensus.AEDPoS/ConsensusCommandGeneration/MainChainConsensusBehaviourProvider.cs",
    "contract/AElf.Contracts.Consensus.AEDPoS/ConsensusCommandGeneration/MiningTimeArrangingService.cs",
    "contract/AElf.Contracts.Consensus.AEDPoS/ConsensusCommandGeneration/SideChainConsensusBehaviourProvider.cs",
    "contract/AElf.Contracts.Consensus.AEDPoS/ConsensusCommandGeneration/Strategies/CommandStrategyBase.cs",
    "contract/AElf.Contracts.Consensus.AEDPoS/ConsensusCommandGeneration/Strategies/FirstRoundCommandStrategy.cs",
    "contract/AElf.Contracts.Consensus.AEDPoS/ConsensusCommandGeneration/Strategies/ICommandStrategy.cs",
    "contract/AElf.Contracts.Consensus.AEDPoS/ConsensusCommandGeneration/Strategies/NormalBlockCommandStrategy.cs",
    "contract/AElf.Contracts.Consensus.AEDPoS/ConsensusCommandGeneration/Strategies/TerminateRoundCommandStrategy.cs",
    "contract/AElf.Contracts.Consensus.AEDPoS/ConsensusCommandGeneration/Strategies/TinyBlockCommandStrategy.cs",
    "contract/AElf.Contracts.Consensus.AEDPoS/ConsensusHeaderInfoValidationProviders/ConsensusValidationContext.cs",
    "contract/AElf.Contracts.Consensus.AEDPoS/ConsensusHeaderInfoValidationProviders/ContinuousBlocksValidationProvider.cs",
    "contract/AElf.Contracts.Consensus.AEDPoS/ConsensusHeaderInfoValidationProviders/IHeaderInformationValidationProvider.cs",
    "contract/AElf.Contracts.Consensus.AEDPoS/ConsensusHeaderInfoValidationProviders/LibInformationValidationProvider.cs",
    "contract/AElf.Contracts.Consensus.AEDPoS/ConsensusHeaderInfoValidationProviders/MiningPermissionValidationProvider.cs",
    "contract/AElf.Contracts.Consensus.AEDPoS/ConsensusHeaderInfoValidationProviders/NextRoundMiningOrderValidationProvider.cs",
    "contract/AElf.Contracts.Consensus.AEDPoS/ConsensusHeaderInfoValidationProviders/RoundTerminateValidationProvider.cs",
    "contract/AElf.Contracts.Consensus.AEDPoS/ConsensusHeaderInfoValidationProviders/TimeSlotValidationProvider.cs",
    "contract/AElf.Contracts.Consensus.AEDPoS/ConsensusHeaderInfoValidationProviders/UpdateValueValidationProvider.cs",
    "contract/AElf.Contracts.Consensus.AEDPoS/ContractsReferences.cs",
    "contract/AElf.Contracts.Consensus.AEDPoS/Types/MinerList.cs",
    "contract/AElf.Contracts.Consensus.AEDPoS/Types/NextRoundInput.cs",
    "contract/AElf.Contracts.Consensus.AEDPoS/Types/NextTermInput.cs",
    "contract/AElf.Contracts.Consensus.AEDPoS/Types/Round.cs",
    "contract/AElf.Contracts.Consensus.AEDPoS/Types/Round_ApplyNormalConsensusData.cs",
    "contract/AElf.Contracts.Consensus.AEDPoS/Types/Round_ArrangeAbnormalMiningTime.cs",
    "contract/AElf.Contracts.Consensus.AEDPoS/Types/Round_ExtractInformationToUpdateConsensus.cs",
    "contract/AElf.Contracts.Consensus.AEDPoS/Types/Round_Generation.cs",
    "contract/AElf.Contracts.Consensus.AEDPoS/Types/Round_GetLighterRound.cs",
    "contract/AElf.Contracts.Consensus.AEDPoS/Types/Round_GetLogs.cs",
    "contract/AElf.Contracts.Consensus.AEDPoS/Types/Round_ImpliedIrreversibleBlockHeight.cs",
    "contract/AElf.Contracts.Consensus.AEDPoS/Types/Round_Recover.cs",
    "contract/AElf.Contracts.Consensus.AEDPoS/Types/Round_Simplify.cs",
    "contract/AElf.Contracts.CrossChain/CrossChainContract.cs",
    "contract/AElf.Contracts.CrossChain/CrossChainContractState.cs",
    "contract/AElf.Contracts.CrossChain/CrossChainContract_ACS1_TransactionFeeProvider.cs",
    "contract/AElf.Contracts.CrossChain/CrossChainContract_Constants.cs",
    "contract/AElf.Contracts.CrossChain/CrossChainContract_Helper.cs",
    "contract/AElf.Contracts.CrossChain/CrossChainContract_View.cs",
    "contract/AElf.Contracts.CrossChain/CrossChainReferenceState.cs",
    "contract/AElf.Contracts.Economic/EconomicContract.cs",
    "contract/AElf.Contracts.Economic/EconomicContractConstants.cs",
    "contract/AElf.Contracts.Economic/EconomicContractState.cs",
    "contract/AElf.Contracts.Economic/EconomicContract_ACS1_TransactionFeeProvider.cs",
    "contract/AElf.Contracts.Election/ElectionContractConstants.cs",
    "contract/AElf.Contracts.Election/ElectionContractReferenceState.cs",
    "contract/AElf.Contracts.Election/ElectionContractState.cs",
    "contract/AElf.Contracts.Election/ElectionContract_ACS1_TransactionFeeProvider.cs",
    "contract/AElf.Contracts.Election/ElectionContract_Candidate.cs",
    "contract/AElf.Contracts.Election/ElectionContract_Elector.cs",
    "contract/AElf.Contracts.Election/ElectionContract_Maintainence.cs",
    "contract/AElf.Contracts.Election/TimestampHelper.cs",
    "contract/AElf.Contracts.Election/ViewMethods.cs",
    "contract/AElf.Contracts.Genesis/BasicContractZero.cs",
    "contract/AElf.Contracts.Genesis/BasicContractZeroContract_ACS1_TransactionFeeProvider.cs",
    "contract/AElf.Contracts.Genesis/BasicContractZeroReferenceState.cs",
    "contract/AElf.Contracts.Genesis/BasicContractZeroState.cs",
    "contract/AElf.Contracts.Genesis/BasicContractZero_Constants.cs",
    "contract/AElf.Contracts.Genesis/BasicContractZero_Helper.cs",
    "contract/AElf.Contracts.MultiToken/TokenContractConstants.cs",
    "contract/AElf.Contracts.MultiToken/TokenContractReferenceState.cs",
    "contract/AElf.Contracts.MultiToken/TokenContractState.cs",
    "contract/AElf.Contracts.MultiToken/TokenContractState_ChargeFee.cs",
    "contract/AElf.Contracts.MultiToken/TokenContract_ACS1_MethodFeeProvider.cs",
    "contract/AElf.Contracts.MultiToken/TokenContract_ACS2_StatePathsProvider.cs",
    "contract/AElf.Contracts.MultiToken/TokenContract_Actions.cs",
    "contract/AElf.Contracts.MultiToken/TokenContract_CacheFileds.cs",
    "contract/AElf.Contracts.MultiToken/TokenContract_Delegation.cs",
    "contract/AElf.Contracts.MultiToken/TokenContract_Fee_Calculate_Coefficient.cs",
    "contract/AElf.Contracts.MultiToken/TokenContract_Fees.cs",
    "contract/AElf.Contracts.MultiToken/TokenContract_Helper.cs",
    "contract/AElf.Contracts.MultiToken/TokenContract_Method_Authorization.cs",
    "contract/AElf.Contracts.MultiToken/TokenContract_NFTHelper.cs",
    "contract/AElf.Contracts.MultiToken/TokenContract_NFT_Actions.cs",
    "contract/AElf.Contracts.MultiToken/TokenContract_Views.cs",
    "contract/AElf.Contracts.NFT/NFTContractConstants.cs",
    "contract/AElf.Contracts.NFT/NFTContractReferenceState.cs",
    "contract/AElf.Contracts.NFT/NFTContractState.cs",
    "contract/AElf.Contracts.NFT/NFTContract_ACS1.cs",
    "contract/AElf.Contracts.NFT/NFTContract_Create.cs",
    "contract/AElf.Contracts.NFT/NFTContract_Helpers.cs",
    "contract/AElf.Contracts.NFT/NFTContract_UseChain.cs",
    "contract/AElf.Contracts.NFT/NFTContract_View.cs",
    "contract/AElf.Contracts.Parliament/Parliament.cs",
    "contract/AElf.Contracts.Parliament/ParliamentConstants.cs",
    "contract/AElf.Contracts.Parliament/ParliamentContract_ACS1_TransactionFeeProvider.cs",
    "contract/AElf.Contracts.Parliament/ParliamentState.cs",
    "contract/AElf.Contracts.Parliament/Parliament_Constants.cs",
    "contract/AElf.Contracts.Parliament/Parliament_Helper.cs",
    "contract/AElf.Contracts.Profit/ContractsReferences.cs",
    "contract/AElf.Contracts.Profit/Models/RemovedDetails.cs",
    "contract/AElf.Contracts.Profit/ProfitContract.cs",
    "contract/AElf.Contracts.Profit/ProfitContractConstants.cs",
    "contract/AElf.Contracts.Profit/ProfitContractState.cs",
    "contract/AElf.Contracts.Profit/ProfitContract_ACS1_TransactionFeeProvider.cs",
    "contract/AElf.Contracts.Profit/ViewMethods.cs",
    "contract/AElf.Contracts.Referendum/ProposerWhiteListExtensions.cs",
    "contract/AElf.Contracts.Referendum/Referendum.cs",
    "contract/AElf.Contracts.Referendum/ReferendumConstants.cs",
    "contract/AElf.Contracts.Referendum/ReferendumContract_ACS1_TransactionFeeProvider.cs",
    "contract/AElf.Contracts.Referendum/ReferendumState.cs",
    "contract/AElf.Contracts.Referendum/Referendum_Helper.cs",
    "contract/AElf.Contracts.TokenConverter/BancorHelper.cs",
    "contract/AElf.Contracts.TokenConverter/InvalidValueException.cs",
    "contract/AElf.Contracts.TokenConverter/TokenConvert_Views.cs",
    "contract/AElf.Contracts.TokenConverter/TokenConverterContract.cs",
    "contract/AElf.Contracts.TokenConverter/TokenConverterContractState.cs",
    "contract/AElf.Contracts.TokenConverter/TokenConverterContract_ACS1_TransactionFeeProvider.cs",
    "contract/AElf.Contracts.TokenHolder/ContractsReferences.cs",
    "contract/AElf.Contracts.TokenHolder/TokenHolderContract.cs",
    "contract/AElf.Contracts.TokenHolder/TokenHolderContractState.cs",
    "contract/AElf.Contracts.TokenHolder/TokenHolderContract_ACS1_TransactionFeeProvider.cs",
    "contract/AElf.Contracts.Treasury/ContractsReferences.cs",
    "contract/AElf.Contracts.Treasury/TreasuryContract.cs",
    "contract/AElf.Contracts.Treasury/TreasuryContractConstants.cs",
    "contract/AElf.Contracts.Treasury/TreasuryContractState.cs",
    "contract/AElf.Contracts.Treasury/TreasuryContract_ACS1_TransactionFeeProvider.cs",
    "contract/AElf.Contracts.Vote/ContractsReferences.cs",
    "contract/AElf.Contracts.Vote/ViewMethods.cs",
    "contract/AElf.Contracts.Vote/VoteContract.cs",
    "contract/AElf.Contracts.Vote/VoteContractConstants.cs",
    "contract/AElf.Contracts.Vote/VoteContractState.cs",
    "contract/AElf.Contracts.Vote/VoteContract_ACS1_TransactionFeeProvider.cs",
    "contract/AElf.Contracts.Vote/VoteExtensions.cs"
>>

\* ------------------------------------------------- repr(str), str(list)
Contains(s, c) == \E i \in 1..Len(s) : CharAt(s, i) = c

\* the text a character takes inside a repr quoted with q
EscapeChar(c, q) ==
    CASE c = "\\" -> "\\\\"
      [] c = q    -> "\\" \o q
      [] c = "\n" -> "\\n"
      [] c = "\t" -> "\\t"
      [] c = "\r" -> "\\r"
      [] OTHER    -> c

RECURSIVE EscapeChars(_, _)
\* every character of s escaped, left to right (evaluated by halves)
EscapeChars(s, q) ==
    IF Len(s) = 0 THEN ""
    ELSE IF Len(s) = 1 THEN EscapeChar(s, q)
    ELSE LET h == Len(s) \div 2
         IN  EscapeChars(SubSeq(s, 1, h), q)
                \o EscapeChars(SubSeq(s, h + 1, Len(s)), q)

\* repr of a str: single quotes, unless the text holds one and no double quote
PyReprStr(s) ==
    LET q == IF Contains(s, SQ) /\ ~Contains(s, DQ) THEN DQ ELSE SQ
    IN  q \o EscapeChars(s, q) \o q

\* PyReprStr tabulated once for the strings of the list literal
ReprTable ==
    [s \in {SCOPE_FILES_LITERAL[i] : i \in 1..Len(SCOPE_FILES_LITERAL)}
        |-> PyReprStr(s)]

\* repr(s), read from the table when s is in it
PyRepr(s) == IF s \in DOMAIN ReprTable THEN ReprTable[s] ELSE PyReprStr(s)

RECURSIVE JoinRepr(_, _, _)
\* ", ".join(repr(l[i]) for i in lo..hi) (evaluated by halves)
JoinRepr(l, lo, hi) ==
    IF lo > hi THEN ""
    ELSE IF lo = hi THEN PyRepr(l[lo])
    ELSE LET mid == (lo + hi) \div 2
         IN  JoinRepr(l, lo, mid) \o ", " \o JoinRepr(l, mid + 1, hi)

\* mutant of PyStrList: the list is rendered with its repeated second half
\* left out
PyStrListOnce(l) == "[" \o JoinRepr(l, 1, Len(l) \div 2) \o "]"

\* str of a list of str: "[" + ", ".join(repr(x) for x in l) + "]"
PyStrList(l) == "[" \o JoinRepr(l, 1, Len(l)) \o "]"

\* the value an f-string replacement field "{x}" inserts: format(x, "")
PyFormat(x) ==
    CASE x.t = "str" -> x.s
      [] x.t = "int" -> (IF x.n < 0 THEN "-" ELSE "")
                           \o NatToStr(IF x.n < 0 THEN 0 - x.n ELSE x.n)
      [] x.t = "NoneType" -> "None"
      [] x.t = "list" -> PyStrList(x.l)

PyList(l) == [t |-> "list", l |-> l]

\* ------------------------------------------------- template literal text
\* The constant text between the replacement fields of each f-string.  A
\* long run of prose is abridged to its first and last characters around
\* " (...) "; the text that touches a replacement field is kept verbatim.
\* The abridged prose holds no brace and no entry of scope_files.
QG_1 ==
    "\n# **Generate 150+ Targeted Security Audit Questions for AElf Core Smart Contracts (C#)**\n (...) \n## **Scope**\n\n**CRITICAL TARGET FILE**: Focus question generation EXCLUSIVELY on "
      \o BT
QG_2 ==
    BT
      \o "\n\nQuestions must be generated from "
      \o BT
QG_3 ==
    BT
      \o " only. If you cannot reach 150 questions from this file, (...) "
      \o BT3
      \o "python\ncore_components = [\n    \"contract/AElf.Contracts.Consensus.AEDPoS/*\", (...) ]\n"
      \o BT3
      \o " (...) "
      \o BT3
      \o "python\nquestions = [\n    \"[File: "
QG_4 ==
    "] [Function: functionName()] [Vulnerability Type] Specific exploit scenario with preconditions, violated invariant, attacker action, and concrete impact? (High)\",\n]\n"
      \o BT3
      \o "\n\n## **Output Requirements**\n\nGenerate questions focusing EXCLUSIVELY on "
      \o BT
QG_5 ==
    BT
      \o " that:\n- Reference real functions/methods/logic blocks in "
      \o BT
QG_6 ==
    BT
      \o "\n- Include concrete exploit paths, not generic checks\n (...) \n\nBegin generating questions for "
      \o BT
QG_7 ==
    BT
      \o " now.\n"

VF_1 == "\nYou are an **Elite AElf Smart Contract Security Judge** (...) \n\n**SECURITY CLAIM TO VALIDATE:**\n"
VF_2 ==
    "\n\n================ (...) \n**In-Scope AElf smart contract files**\n"
      \o BT3
      \o "python\nscope_files = "
VF_3 ==
    "\n"
      \o BT3
      \o "\n\n#### **B. Threat Model Violations**\n (...) truly a  valid vulnerability \n"

AF_1 == "# AELF SMART CONTRACT SECURITY AUDIT PROMPT\n\n## Security Question to Investigate:\n"
AF_2 == "\n\n## Codebase Context\n (...) \n\nBegin investigation of: "
AF_3 == "\n\n"

SCF_1 == "# AELF CROSS-PROTOCOL ANALOG SCAN PROMPT\n\n## External Report To Map Into AElf\n"
SCF_2 == "\n\n## Objective\n (...) \n\nBegin deep analog scan now.\n\n"

\* ------------------------------------------------------------- builders
\* each takes the argument value (and the module global it reads) and
\* returns the prompt string
\* mutant of question_generator: the field of the question format example
\* is left as a placeholder
question_generator_unfilled(target_file) ==
    QG_1 \o PyFormat(target_file) \o QG_2 \o PyFormat(target_file)
         \o QG_3 \o "{target_file}" \o QG_4 \o PyFormat(target_file)
         \o QG_5 \o PyFormat(target_file) \o QG_6 \o PyFormat(target_file)
         \o QG_7

question_generator(target_file) ==
    QG_1 \o PyFormat(target_file) \o QG_2 \o PyFormat(target_file)
         \o QG_3 \o PyFormat(target_file) \o QG_4 \o PyFormat(target_file)
         \o QG_5 \o PyFormat(target_file) \o QG_6 \o PyFormat(target_file)
         \o QG_7

\* mutant of validation_format: the report is embedded as its repr
validation_format_repr(report, scope) ==
    VF_1 \o (IF report.t = "str" THEN PyReprStr(report.s)
             ELSE PyFormat(report))
         \o VF_2 \o PyFormat(PyList(scope)) \o VF_3

\* mutant of validation_format: the fields are filled one after the other
\* by text replacement, so a report that is the text of the list field is
\* replaced by the list too
validation_format_two_pass(report, scope) ==
    VF_1 \o (IF report = PyStr("{scope_files}") THEN PyFormat(PyList(scope))
             ELSE PyFormat(report))
         \o VF_2 \o PyFormat(PyList(scope)) \o VF_3

validation_format(report, scope) ==
    VF_1 \o PyFormat(report) \o VF_2 \o PyFormat(PyList(scope)) \o VF_3

\* mutant of audit_format: the closing line does not repeat the question
audit_format_once(security_question) ==
    AF_1 \o PyFormat(security_question) \o AF_2 \o AF_3

audit_format(security_question) ==
    AF_1 \o PyFormat(security_question) \o AF_2
         \o PyFormat(security_question) \o AF_3

\* mutant of scan_format: the braces of the field are doubled, which an
\* f-string prints as the literal text of the field
scan_format_escaped(report) ==
    SCF_1 \o "{report}" \o SCF_2

\* mutant of scan_format: only the first 20 characters of the report are
\* shown
scan_format_truncated(report) ==
    SCF_1 \o (IF Len(PyFormat(report)) > 20
              THEN SubSeq(PyFormat(report), 1, 20) ELSE PyFormat(report))
          \o SCF_2

scan_format(report) ==
    SCF_1 \o PyFormat(report) \o SCF_2

\* ------------------------------------------------------------ the inputs
RECURSIVE Concats(_, _)
\* the concatenations of at most n elements of the set of strings W
Concats(W, n) ==
    IF n = 0 THEN {""}
    ELSE LET shorter == Concats(W, n - 1)
         IN  shorter \cup {s \o w : s \in shorter, w \in W}

EnvAlphabet == {"0", "1", "3", "-"}
\* more texts that int() accepts, or rejects, for their sign, blanks,
\* underscores or letters
ExtraCounters == {"+3", " 7", "7 ", "1_3", "1_", "_1", "1.5", "+", "a", "0x1"}
EnvValues == Concats(EnvAlphabet, MaxEnvLen) \cup ExtraCounters

RUN_NUMBER_KEY == "GITHUB_RUN_NUMBER"
EnvUnset == [k \in {} |-> ""]
EnvSet(v) == [k \in {RUN_NUMBER_KEY} |-> v]

ArgWords == {"a", "{scope_files}",
             SQ \o "contract/AElf.Contracts.Vote/VoteExtensions.cs" \o SQ}
ArgStrings == Concats(ArgWords, MaxArgWords)
BuilderArgs == {PyStr(s) : s \in ArgStrings} \cup {PyIntV(7), PyNone}

RunArgs == {PyIntV(n) : n \in (0 - MaxRun)..MaxRun}
              \cup {PyStr(s) : s \in ExtraCounters \cup {"0", "31", "-1"}}
              \cup {PyNone}
MaxIndexArgs == ((0 - MaxSmallIndex)..MaxSmallIndex) \cup {MAX_REPO}

\* ---------------------------------------------------------------- state
VARIABLES
    environ,      \* os.environ restricted to GITHUB_RUN_NUMBER
    phase,        \* "init": not imported, "loaded", "failed": import raised
    defined,      \* the names bound in the module namespace
    exc,          \* the exception the import raised, "" if none
    run_number,   \* module global, str
    run_index,    \* module global, int (rotating branch only)
    repo_number,  \* module global, str (rotating branch only)
    BASE_URL,     \* module global, str
    scope_files,  \* module global, list of str
    max_repo,     \* module global MAX_REPO, int
    call,         \* the call the client has made, NoCall when it is idle
    result,       \* what that call returned or raised
    frames        \* per concurrent caller: the call it is in and its result

vars == <<environ, phase, defined, exc, run_number, run_index, repo_number,
          BASE_URL, scope_files, max_repo, call, result, frames>>

globals == <<defined, run_number, run_index, repo_number, BASE_URL,
             scope_files, max_repo>>

NoCall == [fn |-> "", args |-> <<>>]

\* the threads of the concurrent client, and a thread that is in no call
Callers == 1..NumCallers
IdleFrame == [pc |-> "idle", fn |-> "", args |-> <<>>,
              result |-> Returned(PyNone)]

\* mutant of os_environ_get: a missing key reads as the empty text
os_environ_get_no_default(key, default) ==
    IF key \in DOMAIN environ THEN environ[key] ELSE ""

\* os.environ.get(key, default)
os_environ_get(key, default) ==
    IF key \in DOMAIN environ THEN environ[key] ELSE default

\* names bound by lines 6-14, before the branch on run_number
EarlyNames == {"MAX_REPO", "SOURCE_REPO", "REPO_NAME", "run_number",
               "get_cyclic_index"}
\* names bound from line 26 on
LateNames == {"scope_files", "question_generator", "validation_format",
              "audit_format", "scan_format"}

Init ==
    /\ environ \in {EnvUnset} \cup {EnvSet(v) : v \in EnvValues}
    /\ phase = "init"
    /\ defined = {}
    /\ exc = ""
    /\ run_number = ""
    /\ run_index = 0
    /\ repo_number = ""
    /\ BASE_URL = ""
    /\ scope_files = <<>>
    /\ max_repo = 0
    /\ call = NoCall
    /\ result = Returned(PyNone)
    /\ frames = [c \in Callers |-> IdleFrame]

\* mutant of ImportCanonical: the list literal is written without its
\* repeated second half
ImportCanonicalOneCopy ==
    /\ phase = "init"
    /\ LET rn == os_environ_get(RUN_NUMBER_KEY, "0")
       IN  /\ rn = "0"
           /\ max_repo' = MAX_REPO
           /\ run_number' = rn
           /\ BASE_URL' = "https://deepwiki.com/" \o SOURCE_REPO
    /\ defined' = EarlyNames \cup {"BASE_URL"} \cup LateNames
    /\ scope_files' = SubSeq(SCOPE_FILES_LITERAL, 1, 158)
    /\ phase' = "loaded"
    /\ UNCHANGED <<environ, exc, run_index, repo_number, call, result, frames>>

\* mutant of ImportCanonical: the branch tests the value of the counter,
\* int(run_number) == 0, and not its text
ImportCanonicalByValue ==
    /\ phase = "init"
    /\ LET rn == os_environ_get(RUN_NUMBER_KEY, "0")
       IN  /\ PyInt(PyStr(rn)) = Returned(PyIntV(0))
           /\ max_repo' = MAX_REPO
           /\ run_number' = rn
           /\ BASE_URL' = "https://deepwiki.com/" \o SOURCE_REPO
    /\ defined' = EarlyNames \cup {"BASE_URL"} \cup LateNames
    /\ scope_files' = SCOPE_FILES_LITERAL
    /\ phase' = "loaded"
    /\ UNCHANGED <<environ, exc, run_index, repo_number, call, result, frames>>

\* ----------------------------------------------------- the module body
\* import with run_number == "0": lines 9, 17-18, then 26 to the end
ImportCanonical ==
    /\ phase = "init"
    /\ LET rn == os_environ_get(RUN_NUMBER_KEY, "0")
       IN  /\ rn = "0"
           /\ max_repo' = MAX_REPO
           /\ run_number' = rn
           /\ BASE_URL' = "https://deepwiki.com/" \o SOURCE_REPO
    /\ defined' = EarlyNames \cup {"BASE_URL"} \cup LateNames
    /\ scope_files' = SCOPE_FILES_LITERAL
    /\ phase' = "loaded"
    /\ UNCHANGED <<environ, exc, run_index, repo_number, call, result, frames>>

\* import with another run_number that int() accepts: lines 9, 19-24, 26-
ImportRotating ==
    /\ phase = "init"
    /\ LET rn == os_environ_get(RUN_NUMBER_KEY, "0")
           idx == get_cyclic_index(PyStr(rn), MAX_REPO)
       IN  /\ rn # "0"
           /\ idx.raised = ""
           /\ max_repo' = MAX_REPO
           /\ run_number' = rn
           /\ run_index' = idx.value.n
           /\ repo_number' = Format03d(idx.value.n)
           /\ BASE_URL' = "https://deepwiki.com/grass-dev-pa/" \o REPO_NAME
                             \o "-" \o Format03d(idx.value.n)
    /\ defined' = EarlyNames \cup {"run_index", "repo_number", "BASE_URL"}
                     \cup LateNames
    /\ scope_files' = SCOPE_FILES_LITERAL
    /\ phase' = "loaded"
    /\ UNCHANGED <<environ, exc, call, result, frames>>

\* import where get_cyclic_index raises at line 21: nothing later is bound
ImportRaises ==
    /\ phase = "init"
    /\ LET rn == os_environ_get(RUN_NUMBER_KEY, "0")
           idx == get_cyclic_index(PyStr(rn), MAX_REPO)
       IN  /\ rn # "0"
           /\ idx.raised # ""
           /\ max_repo' = MAX_REPO
           /\ run_number' = rn
           /\ exc' = idx.raised
    /\ defined' = EarlyNames
    /\ phase' = "failed"
    /\ UNCHANGED <<environ, run_index, repo_number, BASE_URL, scope_files,
                   call, result, frames>>

\* ------------------------------------------------- calls by a client
\* One sequential client: it calls a function of the loaded module, gets
\* the result, and drops it before its next call.
CallGetCyclicIndex ==
    /\ phase = "loaded"
    /\ call = NoCall
    /\ \E r \in RunArgs, m \in MaxIndexArgs :
          /\ call' = [fn |-> "get_cyclic_index", args |-> <<r, PyIntV(m)>>]
          /\ result' = get_cyclic_index(r, m)
    /\ UNCHANGED <<environ, phase, exc, globals, frames>>

\* max_index left to its default
CallGetCyclicIndexDefault ==
    /\ phase = "loaded"
    /\ call = NoCall
    /\ \E r \in RunArgs :
          /\ call' = [fn |-> "get_cyclic_index", args |-> <<r>>]
          /\ result' = get_cyclic_index(r, DEFAULT_MAX_INDEX)
    /\ UNCHANGED <<environ, phase, exc, globals, frames>>

\* the client loops over consecutive run numbers: with the result of
\* get_cyclic_index(n, max) in hand it calls get_cyclic_index(n + 1, max)
CallGetCyclicIndexNext ==
    /\ phase = "loaded"
    /\ call.fn = "get_cyclic_index"
    /\ Len(call.args) = 2
    /\ call.args[1].t = "int"
    /\ call.args[1].n < MaxRun
    /\ call' = [call EXCEPT !.args[1] = PyIntV(call.args[1].n + 1)]
    /\ result' = get_cyclic_index(PyIntV(call.args[1].n + 1), call.args[2].n)
    /\ UNCHANGED <<environ, phase, exc, globals, frames>>

\* mutant of CallQuestionGenerator: the prompt ends with the wiki URL of
\* the run
CallQuestionGeneratorWithUrl ==
    /\ phase = "loaded"
    /\ call = NoCall
    /\ \E a \in BuilderArgs :
          /\ call' = [fn |-> "question_generator", args |-> <<a>>]
          /\ result' = Returned(PyStr(question_generator(a) \o BASE_URL))
    /\ UNCHANGED <<environ, phase, exc, globals, frames>>

CallQuestionGenerator ==
    /\ phase = "loaded"
    /\ call = NoCall
    /\ \E a \in BuilderArgs :
          /\ call' = [fn |-> "question_generator", args |-> <<a>>]
          /\ result' = Returned(PyStr(question_generator(a)))
    /\ UNCHANGED <<environ, phase, exc, globals, frames>>

\* mutant of CallValidationFormat: the function pops the first entry of the
\* shared list after it has rendered it
CallValidationFormatPopping ==
    /\ phase = "loaded"
    /\ call = NoCall
    /\ \E a \in BuilderArgs :
          /\ call' = [fn |-> "validation_format", args |-> <<a>>]
          /\ result' = Returned(PyStr(validation_format(a, scope_files)))
    /\ scope_files' = Tail(scope_files)
    /\ UNCHANGED <<environ, phase, exc, defined, run_number, run_index,
                   repo_number, BASE_URL, max_repo, frames>>

CallValidationFormat ==
    /\ phase = "loaded"
    /\ call = NoCall
    /\ \E a \in BuilderArgs :
          /\ call' = [fn |-> "validation_format", args |-> <<a>>]
          /\ result' = Returned(PyStr(validation_format(a, scope_files)))
    /\ UNCHANGED <<environ, phase, exc, globals, frames>>

\* mutant of CallAuditFormat: the function rejects an empty question
CallAuditFormatStrict ==
    /\ phase = "loaded"
    /\ call = NoCall
    /\ \E a \in BuilderArgs :
          /\ call' = [fn |-> "audit_format", args |-> <<a>>]
          /\ result' = IF a = PyStr("") THEN Raised("ValueError")
                       ELSE Returned(PyStr(audit_format(a)))
    /\ UNCHANGED <<environ, phase, exc, globals, frames>>

CallAuditFormat ==
    /\ phase = "loaded"
    /\ call = NoCall
    /\ \E a \in BuilderArgs :
          /\ call' = [fn |-> "audit_format", args |-> <<a>>]
          /\ result' = Returned(PyStr(audit_format(a)))
    /\ UNCHANGED <<environ, phase, exc, globals, frames>>

CallScanFormat ==
    /\ phase = "loaded"
    /\ call = NoCall
    /\ \E a \in BuilderArgs :
          /\ call' = [fn |-> "scan_format", args |-> <<a>>]
          /\ result' = Returned(PyStr(scan_format(a)))
    /\ UNCHANGED <<environ, phase, exc, globals, frames>>

\* the client is done with the result and is ready for its next call
Discard ==
    /\ call # NoCall
    /\ call' = NoCall
    /\ result' = Returned(PyNone)
    /\ UNCHANGED <<environ, phase, exc, globals, frames>>

Next ==
    \/ ImportCanonical
    \/ ImportRotating
    \/ ImportRaises
    \/ CallGetCyclicIndex
    \/ CallGetCyclicIndexDefault
    \/ CallGetCyclicIndexNext
    \/ CallQuestionGenerator
    \/ CallValidationFormat
    \/ CallAuditFormat
    \/ CallScanFormat
    \/ Discard

Spec == Init /\ [][Next]_vars


\* ------------------------------------------- calls by concurrent threads
\* NumCallers threads call the functions of the loaded module. A call is
\* three steps of its thread: it enters the function with its arguments, the
\* body runs and reads the globals it names, and the thread takes the
\* result. Steps of different threads interleave freely.
BuilderNames == {"question_generator", "validation_format", "audit_format",
                 "scan_format"}
ConcurrentArgs == {PyStr(""), PyStr("{report}")}
ConcurrentRuns == {PyIntV(0), PyStr("31")}
ConcurrentCalls ==
    {[fn |-> f, args |-> <<a>>] : f \in BuilderNames, a \in ConcurrentArgs}
       \cup {[fn |-> "get_cyclic_index", args |-> <<r, PyIntV(MAX_REPO)>>] :
                r \in ConcurrentRuns}
       \cup {[fn |-> "get_cyclic_index", args |-> <<r>>] :
                r \in ConcurrentRuns}

\* the outcome of the body of fn on args when the global scope_files is scope
Evaluate(fn, args, scope) ==
    CASE fn = "question_generator"
            -> Returned(PyStr(question_generator(args[1])))
      [] fn = "validation_format"
            -> Returned(PyStr(validation_format(args[1], scope)))
      [] fn = "audit_format"
            -> Returned(PyStr(audit_format(args[1])))
      [] fn = "scan_format"
            -> Returned(PyStr(scan_format(args[1])))
      [] fn = "get_cyclic_index"
            -> get_cyclic_index(args[1], IF Len(args) = 2 THEN args[2].n
                                         ELSE DEFAULT_MAX_INDEX)

Enter ==
    /\ phase = "loaded"
    /\ \E t \in Callers, c \in ConcurrentCalls :
          /\ frames[t].pc = "idle"
          /\ frames' = [frames EXCEPT ![t] =
                           [pc |-> "called", fn |-> c.fn, args |-> c.args,
                            result |-> Returned(PyNone)]]
    /\ UNCHANGED <<environ, phase, exc, globals, call, result>>

\* mutant of Run: validation_format takes the entries off the shared list
\* as it renders them
RunConsuming ==
    /\ \E t \in Callers :
          /\ frames[t].pc = "called"
          /\ frames' = [frames EXCEPT ![t].pc = "done",
                           ![t].result = Evaluate(frames[t].fn,
                                                  frames[t].args,
                                                  scope_files)]
          /\ scope_files' = IF frames[t].fn = "validation_format"
                            THEN <<>> ELSE scope_files
    /\ UNCHANGED <<environ, phase, exc, defined, run_number, run_index,
                   repo_number, BASE_URL, max_repo, call, result>>

\* mutant of Run: question_generator records its target file in the shared
\* list
RunRecording ==
    /\ \E t \in Callers :
          /\ frames[t].pc = "called"
          /\ frames' = [frames EXCEPT ![t].pc = "done",
                           ![t].result = Evaluate(frames[t].fn,
                                                  frames[t].args,
                                                  scope_files)]
          /\ scope_files' = IF frames[t].fn = "question_generator"
                            THEN Append(scope_files, frames[t].args[1].s)
                            ELSE scope_files
    /\ UNCHANGED <<environ, phase, exc, defined, run_number, run_index,
                   repo_number, BASE_URL, max_repo, call, result>>

\* the body of the function runs: none of the five assigns to a global
Run ==
    /\ \E t \in Callers :
          /\ frames[t].pc = "called"
          /\ frames' = [frames EXCEPT ![t].pc = "done",
                           ![t].result = Evaluate(frames[t].fn,
                                                  frames[t].args,
                                                  scope_files)]
    /\ UNCHANGED <<environ, phase, exc, globals, call, result>>

\* the thread has its result and is free for its next call
Leave ==
    /\ \E t \in Callers :
          /\ frames[t].pc = "done"
          /\ frames' = [frames EXCEPT ![t] = IdleFrame]
    /\ UNCHANGED <<environ, phase, exc, globals, call, result>>

\* the counter is unset, or set to a run past the first rotation
InitConcurrent ==
    /\ environ \in {EnvUnset, EnvSet("31")}
    /\ phase = "init"
    /\ defined = {}
    /\ exc = ""
    /\ run_number = ""
    /\ run_index = 0
    /\ repo_number = ""
    /\ BASE_URL = ""
    /\ scope_files = <<>>
    /\ max_repo = 0
    /\ call = NoCall
    /\ result = Returned(PyNone)
    /\ frames = [c \in Callers |-> IdleFrame]

NextConcurrent ==
    \/ ImportCanonical
    \/ ImportRotating
    \/ Enter
    \/ Run
    \/ Leave

SpecConcurrent == InitConcurrent /\ [][NextConcurrent]_vars

\* =================================================== checked properties
\* the client has called get_cyclic_index(run, max) with an int run
IndexCallOnInt ==
    /\ call.fn = "get_cyclic_index"
    /\ Len(call.args) = 2
    /\ call.args[1].t = "int"

Abs(n) == IF n < 0 THEN 0 - n ELSE n

\* a is congruent to b modulo m (m >= 1), stated without a remainder operator
Congruent(a, b, m) ==
    \E k \in (0 - (Abs(a) + Abs(b)))..(Abs(a) + Abs(b)) : a - b = k * m

\* C1: for every integer run (zero and negative included) and every integer
\* max >= 1, get_cyclic_index(run, max) returns a value r with 1 <= r <= max.
C1_IndexInRange ==
    (IndexCallOnInt /\ call.args[2].n >= 1)
        => /\ result.raised = ""
           /\ result.value.t = "int"
           /\ result.value.n \in 1..call.args[2].n

\* a negative run with the bound of the target URL was mapped into range
C1_Witness ==
    /\ IndexCallOnInt
    /\ call.args[1].n < 0
    /\ call.args[2].n = MAX_REPO
    /\ result.raised = ""
    /\ result.value.n \in 1..MAX_REPO

\* C2: for every integer run and every max >= 1, get_cyclic_index(run, max)
\* is ((run - 1) mod max) + 1 for the mathematical modulo: the one value r
\* with 0 <= r - 1 < max and r - 1 congruent to run - 1 modulo max, also for
\* a negative run.
C2_IndexIsTrueModulo ==
    (IndexCallOnInt /\ call.args[2].n >= 1)
        => /\ result.raised = ""
           /\ result.value.n - 1 \in 0..(call.args[2].n - 1)
           /\ Congruent(call.args[1].n - 1, result.value.n - 1,
                        call.args[2].n)

\* get_cyclic_index(-7, 3) returned 2, where a truncating remainder gives -1
C2_Witness ==
    /\ call = [fn |-> "get_cyclic_index",
               args |-> <<PyIntV(0 - 7), PyIntV(3)>>]
    /\ result = Returned(PyIntV(2))

CANONICAL_URL == "https://deepwiki.com/AElfProject/AElf"
ROTATING_PREFIX == "https://deepwiki.com/grass-dev-pa/aelf-"

\* C3: when the run counter is unset (so defaults to "0") or is exactly "0",
\* BASE_URL is exactly the canonical URL: get_cyclic_index is not applied
\* (no run_index, no repo_number) and the URL has no numeric suffix.
C3_CanonicalUrl ==
    (phase # "init" /\ (environ = EnvUnset \/ environ = EnvSet("0")))
        => /\ phase = "loaded"
           /\ "BASE_URL" \in defined
           /\ BASE_URL = CANONICAL_URL
           /\ run_number = "0"
           /\ "run_index" \notin defined
           /\ "repo_number" \notin defined

\* the module was imported with the variable unset
C3_Witness ==
    /\ environ = EnvUnset
    /\ phase = "loaded"
    /\ BASE_URL = CANONICAL_URL

\* the counter is set to a text other than "0" that int() accepts
CounterParses ==
    /\ RUN_NUMBER_KEY \in DOMAIN environ
    /\ environ[RUN_NUMBER_KEY] # "0"
    /\ IsIntLiteral(environ[RUN_NUMBER_KEY])

\* the value of the three characters that follow the rotating prefix
SuffixValue(url) ==
    LET p == Len(ROTATING_PREFIX)
    IN  100 * DigitValue(CharAt(url, p + 1))
          + 10 * DigitValue(CharAt(url, p + 2))
          + DigitValue(CharAt(url, p + 3))

C6_NonPositiveMaxRejected ==
    (IndexCallOnInt /\ call.args[2].n <= 0) => result.raised # ""

\* the client has called builder fn with a str and has its prompt
PromptOf(fn) ==
    /\ call.fn = fn
    /\ call.args[1].t = "str"
    /\ result.raised = ""
    /\ result.value.t = "str"

\* needle occurs in text at position p
OccursAt(text, needle, p) == SubSeq(text, p, p + Len(needle) - 1) = needle

\* a position >= from where needle occurs in text, 0 when there is none;
\* the positions just after from are tried first, on a short piece of text
FindFrom(text, needle, from) ==
    LET last == Len(text) - Len(needle) + 1
        stop == from + Len(needle) + 3
        near == SubSeq(text, from, IF stop > Len(text) THEN Len(text) ELSE stop)
        tries == 1..(Len(near) - Len(needle) + 1)
    IN  IF \E d \in tries : OccursAt(near, needle, d)
        THEN from - 1 + CHOOSE d \in tries : OccursAt(near, needle, d)
        ELSE IF \E p \in from..last : OccursAt(text, needle, p)
        THEN CHOOSE p \in from..last : OccursAt(text, needle, p)
        ELSE 0

\* an entry of the list as the prompt shows it: the whole path in quotes
Rendered(entry) == SQ \o entry \o SQ

RECURSIVE AfterEntries(_, _, _, _, _)
\* the position after occurrences of the renderings of l[lo..hi] that start
\* at from or later and follow each other without overlap; 0 when the text
\* has no such occurrences (evaluated by halves)
AfterEntries(text, l, lo, hi, from) ==
    IF lo = hi
    THEN LET p == FindFrom(text, Rendered(l[lo]), from)
         IN  IF p = 0 THEN 0 ELSE p + Len(Rendered(l[lo]))
    ELSE LET mid == (lo + hi) \div 2
             q == AfterEntries(text, l, lo, mid, from)
         IN  IF q = 0 THEN 0 ELSE AfterEntries(text, l, mid + 1, hi, q)

\* text shows every entry of l, whole, in the order of l
ShowsInOrder(text, l) ==
    Len(l) > 0 /\ AfterEntries(text, l, 1, Len(l), 1) # 0

\* C7: for every target_file string the output of question_generator embeds
\* the rendering of the full scope file list: every entry of scope_files
\* occurs in the output, in the order of the list.
C7_QuestionPromptShowsScope ==
    PromptOf("question_generator")
        => ShowsInOrder(result.value.s, scope_files)

\* C8: for every report string the output of validation_format holds the
\* rendering of every entry of scope_files, all 316 of them with the
\* duplicates, each entry whole, in the order of the list.
C8_ValidationPromptShowsScope ==
    PromptOf("validation_format")
        => /\ Len(scope_files) = 316
           /\ ShowsInOrder(result.value.s, scope_files)

\* validation_format was called with a report that itself quotes a path of
\* the list, and the prompt shows the list
C8_Witness ==
    /\ PromptOf("validation_format")
    /\ call.args[1].s
          = SQ \o "contract/AElf.Contracts.Vote/VoteExtensions.cs" \o SQ
    /\ ShowsInOrder(result.value.s, scope_files)

RECURSIVE SegmentOffset(_, _, _)
\* where segment k starts (0-based) in segs[1] x segs[2] x ... segs[n]
SegmentOffset(segs, x, k) ==
    IF k = 1 THEN 0
    ELSE SegmentOffset(segs, x, k - 1) + Len(segs[k - 1]) + Len(x)

\* text is segs[1], x, segs[2], x, ..., segs[n]: read back piece by piece
IsTemplateFilledWith(text, segs, x) ==
    LET n == Len(segs)
    IN  /\ Len(text) = SegmentOffset(segs, x, n) + Len(segs[n])
        /\ \A k \in 1..n :
              SubSeq(text, SegmentOffset(segs, x, k) + 1,
                     SegmentOffset(segs, x, k) + Len(segs[k])) = segs[k]
        /\ \A k \in 1..(n - 1) :
              SubSeq(text, SegmentOffset(segs, x, k) + Len(segs[k]) + 1,
                     SegmentOffset(segs, x, k + 1)) = x

\* C9: for every target_file string, question_generator(target_file) is the
\* fixed template with target_file put unmodified at its six substitution
\* points: seven constant segments with target_file between each
\* consecutive pair, and nothing else.
C9_QuestionPromptTemplate ==
    PromptOf("question_generator")
        => IsTemplateFilledWith(result.value.s,
                                <<QG_1, QG_2, QG_3, QG_4, QG_5, QG_6, QG_7>>,
                                call.args[1].s)

\* question_generator was called with a text that looks like a placeholder
C9_Witness ==
    /\ PromptOf("question_generator")
    /\ call.args[1].s = "{scope_files}" \o "a"
    /\ Len(result.value.s) > 6 * Len(call.args[1].s)

\* C10: for every security_question string, audit_format embeds the question
\* unmodified in exactly two places: the output is a constant prefix, the
\* question, a constant middle, the question, a constant suffix.
C10_AuditPromptTemplate ==
    PromptOf("audit_format")
        => IsTemplateFilledWith(result.value.s, <<AF_1, AF_2, AF_3>>,
                                call.args[1].s)

\* audit_format was called with a non-empty question
C10_Witness ==
    /\ PromptOf("audit_format")
    /\ call.args[1].s = "a" \o "{scope_files}"
    /\ Len(result.value.s) > 2 * Len(call.args[1].s)

RECURSIVE JoinRendered(_, _, _)
\* the renderings of l[lo..hi] separated by a comma and a blank (by halves)
JoinRendered(l, lo, hi) ==
    IF lo > hi THEN ""
    ELSE IF lo = hi THEN Rendered(l[lo])
    ELSE LET mid == (lo + hi) \div 2
         IN  JoinRendered(l, lo, mid) \o ", " \o JoinRendered(l, mid + 1, hi)

\* what follows the report in every validation prompt: the text up to the
\* list, the list of the source in brackets, the text after it
ValidationSuffix ==
    VF_2 \o "[" \o JoinRendered(SCOPE_FILES_LITERAL, 1, 316) \o "]" \o VF_3

\* C11: validation_format and scan_format each embed the report unmodified
\* at exactly one point: the output is a constant prefix, the report, and a
\* constant suffix that does not depend on the report.
C11_ReportEmbeddedOnce ==
    /\ PromptOf("validation_format")
          => IsTemplateFilledWith(result.value.s, <<VF_1, ValidationSuffix>>,
                                  call.args[1].s)
    /\ PromptOf("scan_format")
          => IsTemplateFilledWith(result.value.s, <<SCF_1, SCF_2>>,
                                  call.args[1].s)

\* validation_format was called with a one-letter report, which the prompt
\* shows right after the prefix
C11_Witness ==
    /\ PromptOf("validation_format")
    /\ call.args[1].s = "a"
    /\ SubSeq(result.value.s, 1, Len(VF_1) + 1) = VF_1 \o "a"


\* C12: each of the four builders is deterministic: two calls of the same
\* builder with the same input return the same text, whatever calls of
\* builders were made between them. One thread holds the result of its
\* call while another makes any calls and then the same call.
C12_BuildersDeterministic ==
    \A t, u \in Callers :
        (/\ frames[t].pc = "done"
         /\ frames[u].pc = "done"
         /\ frames[t].fn \in BuilderNames
         /\ frames[t].fn = frames[u].fn
         /\ frames[t].args = frames[u].args)
            => frames[t].result = frames[u].result

\* two threads hold the results of the same validation_format call, and
\* the results are one text
C12_Witness ==
    \E t, u \in Callers :
        /\ t # u
        /\ frames[t].pc = "done"
        /\ frames[u].pc = "done"
        /\ frames[t].fn = "validation_format"
        /\ frames[u].fn = "validation_format"
        /\ frames[t].args = <<PyStr("{report}")>>
        /\ frames[u].args = <<PyStr("{report}")>>
        /\ frames[t].result.raised = ""
        /\ frames[t].result.value.t = "str"
        /\ frames[t].result = frames[u].result


RECURSIVE HoldsBrace(_)
\* s has an opening or a closing brace (searched by halves)
HoldsBrace(s) ==
    IF Len(s) = 0 THEN FALSE
    ELSE IF Len(s) = 1 THEN s \in {"{", "}"}
    ELSE LET mid == Len(s) \div 2
         IN  \/ HoldsBrace(SubSeq(s, 1, mid))
             \/ HoldsBrace(SubSeq(s, mid + 1, Len(s)))

\* the search of the long suffix of the validation prompts, done once
ValidationSuffixHoldsBrace == HoldsBrace(ValidationSuffix)

\* the k-th piece of text that is outside the copies of the input x, when
\* the pieces have the lengths of segs; the last piece runs to the end
PieceOutsideInput(text, segs, x, k) ==
    SubSeq(text, SegmentOffset(segs, x, k) + 1,
           IF k = Len(segs) THEN Len(text)
           ELSE SegmentOffset(segs, x, k) + Len(segs[k]))

\* no field of the template is left in text: every brace of text lies in
\* one of the copies of the input x
NoFieldLeft(text, segs, x) ==
    \A k \in 1..Len(segs) :
        LET piece == PieceOutsideInput(text, segs, x, k)
        IN  IF piece = ValidationSuffix THEN ~ValidationSuffixHoldsBrace
            ELSE ~HoldsBrace(piece)

\* C13: for every input string, the output of each builder has no
\* unsubstituted field ({target_file}, {report}, {security_question},
\* {scope_files}): outside the copies of the input it shows, the output has
\* no brace at all.
C13_NoPlaceholderLeft ==
    /\ PromptOf("question_generator")
          => NoFieldLeft(result.value.s,
                         <<QG_1, QG_2, QG_3, QG_4, QG_5, QG_6, QG_7>>,
                         call.args[1].s)
    /\ PromptOf("validation_format")
          => NoFieldLeft(result.value.s, <<VF_1, ValidationSuffix>>,
                         call.args[1].s)
    /\ PromptOf("audit_format")
          => NoFieldLeft(result.value.s, <<AF_1, AF_2, AF_3>>,
                         call.args[1].s)
    /\ PromptOf("scan_format")
          => NoFieldLeft(result.value.s, <<SCF_1, SCF_2>>, call.args[1].s)

\* scan_format was called with a report made of braces, and they are the
\* braces its prompt has
C13_Witness ==
    /\ PromptOf("scan_format")
    /\ call.args[1].s = "{scope_files}" \o "{scope_files}"
    /\ HoldsBrace(result.value.s)
    /\ NoFieldLeft(result.value.s, <<SCF_1, SCF_2>>, call.args[1].s)

\* C14: with any number of threads calling the four builders and
\* get_cyclic_index at once, every interleaving gives every call the result
\* it has when it runs alone in a freshly loaded module, where scope_files
\* is the list of the source.
C14_InterleavingsAgreeWithAlone ==
    \A t \in Callers :
        frames[t].pc = "done"
            => frames[t].result = Evaluate(frames[t].fn, frames[t].args,
                                           SCOPE_FILES_LITERAL)

\* two calls overlap: one thread holds a validation prompt while another
\* holds the index of run 31
C14_Witness ==
    \E t, u \in Callers :
        /\ t # u
        /\ frames[t].pc = "done"
        /\ frames[t].fn = "validation_format"
        /\ frames[t].result.raised = ""
        /\ Len(frames[t].result.value.s) > Len(VF_1)
        /\ frames[u].pc = "done"
        /\ frames[u].fn = "get_cyclic_index"
        /\ frames[u].args = <<PyStr("31"), PyIntV(MAX_REPO)>>
        /\ frames[u].result = Returned(PyIntV(1))


\* C15: once the module is loaded, no call of the four builders or of
\* get_cyclic_index changes the module state: scope_files, BASE_URL,
\* run_number and MAX_REPO (and the other globals) have after every step
\* the values they had before it.
C15_CallsLeaveGlobalsUnchanged ==
    [][phase = "loaded" => globals' = globals]_vars

\* a call has returned and the globals are as the import bound them
C15_Witness ==
    /\ phase = "loaded"
    /\ call.fn = "validation_format"
    /\ result.raised = ""
    /\ scope_files = SCOPE_FILES_LITERAL
    /\ max_repo = 30
    /\ run_number = "31"
    /\ BASE_URL = "https://deepwiki.com/grass-dev-pa/aelf-001"


\* C16: each of the four builders is total on strings, the empty string
\* included: called with a string it returns a string and raises no error.
C16_BuildersTotalOnStrings ==
    (/\ call.fn \in BuilderNames
     /\ call.args[1].t = "str")
        => /\ result.raised = ""
           /\ result.value.t = "str"
           /\ Len(result.value.s) >= Len(call.args[1].s)

\* audit_format was called with the empty string and returned its template
\* with nothing filled in
C16_Witness ==
    /\ call = [fn |-> "audit_format", args |-> <<PyStr("")>>]
    /\ result.raised = ""
    /\ result.value.t = "str"
    /\ Len(result.value.s) = Len(AF_1) + Len(AF_2) + Len(AF_3)


\* C17: a builder that is called with a value that is not a string fails
\* with an error and returns no prompt.
C17_NonStringRejected ==
    (/\ call.fn \in BuilderNames
     /\ call.args[1].t # "str")
        => /\ result.raised # ""
           /\ result.value = PyNone


\* the client has called get_cyclic_index(k, max) with these two integers
IndexCallOf(k, max) ==
    call = [fn |-> "get_cyclic_index", args |-> <<PyIntV(k), PyIntV(max)>>]

\* C18: for every max >= 1, get_cyclic_index(k, max) = k for 1 <= k <= max
\* and get_cyclic_index(max + 1, max) = 1; in particular
\* get_cyclic_index(1, 30) = 1, get_cyclic_index(30, 30) = 30 and
\* get_cyclic_index(31, 30) = 1.
C18_IdentityThenWrap ==
    /\ (IndexCallOnInt /\ call.args[2].n >= 1)
          => LET k == call.args[1].n
                 max == call.args[2].n
             IN  /\ (1 <= k /\ k <= max) => result = Returned(PyIntV(k))
                 /\ k = max + 1 => result = Returned(PyIntV(1))
    /\ IndexCallOf(1, 30) => result = Returned(PyIntV(1))
    /\ IndexCallOf(30, 30) => result = Returned(PyIntV(30))
    /\ IndexCallOf(31, 30) => result = Returned(PyIntV(1))

\* get_cyclic_index(30, 30) returned 30, the last value before the wrap
C18_Witness ==
    /\ IndexCallOf(30, 30)
    /\ result = Returned(PyIntV(30))

\* C19: zero wraps to the maximum: for every max >= 1,
\* get_cyclic_index(0, max) = max; in particular get_cyclic_index(0, 30) = 30.
C19_ZeroWrapsToMax ==
    /\ (IndexCallOnInt /\ call.args[1].n = 0 /\ call.args[2].n >= 1)
          => result = Returned(call.args[2])
    /\ IndexCallOf(0, 30) => result = Returned(PyIntV(30))

\* get_cyclic_index(0, 30) returned 30
C19_Witness ==
    /\ IndexCallOf(0, 30)
    /\ result.raised = ""
    /\ result.value.n = 30


\* how many entries of l are the path p
Occurrences(l, p) == Cardinality({j \in 1..Len(l) : l[j] = p})

\* C20: scope_files is one sequence of 158 pairwise-distinct paths followed
\* by the same sequence again: it has 316 entries, entry i of the first half
\* is entry i + 158, and every path occurs exactly twice. Stated of the
\* loaded module while its client is between calls.
C20_ScopeFilesIsListTwice ==
    (phase = "loaded" /\ call = NoCall)
        => /\ Len(scope_files) = 316
           /\ \A i \in 1..158 : scope_files[i] = scope_files[i + 158]
           /\ \A i, j \in 1..158 :
                 i # j => scope_files[i] # scope_files[j]
           /\ \A i \in 1..316 :
                 Occurrences(scope_files, scope_files[i]) = 2

\* the module is loaded and its list starts again at entry 159
C20_Witness ==
    /\ phase = "loaded"
    /\ call = NoCall
    /\ Len(scope_files) = 316
    /\ scope_files[1] = scope_files[159]
    /\ scope_files[158] = scope_files[316]
    /\ scope_files[1] # scope_files[158]


\* the indexes get_cyclic_index gives the 30 runs n, n + 1, ..., n + 29
WindowIndexes(n) ==
    {get_cyclic_index(PyIntV(k), 30).value.n : k \in n..(n + 29)}

\* C21: as the run counter advances by one the selected index advances by
\* one and wraps from 30 to 1: when the client goes from
\* get_cyclic_index(n, 30) to get_cyclic_index(n + 1, 30) the new result is
\* (old result mod 30) + 1, and the 30 runs that start at n select each
\* index of 1..30 exactly once.
C21_IndexStepsWithCounter ==
    [][(/\ IndexCallOnInt
        /\ call.args[2].n = 30
        /\ call'.fn = "get_cyclic_index"
        /\ call'.args = <<PyIntV(call.args[1].n + 1), PyIntV(30)>>)
          => /\ result.raised = ""
             /\ result'.raised = ""
             /\ result'.value.n = IF result.value.n = 30 THEN 1
                                  ELSE result.value.n + 1
             /\ (call.args[1].n + 29 <= MaxRun
                    => /\ WindowIndexes(call.args[1].n) = 1..30
                       /\ Cardinality(WindowIndexes(call.args[1].n)) = 30)
      ]_vars

\* the counter went on from a negative run and the index followed it
C21_Witness ==
    /\ IndexCallOf(0 - 29, 30)
    /\ result = Returned(PyIntV(1))
    /\ WindowIndexes(0 - 29) = 1..30


\* the counter is set to a text that int() reads as zero
CounterReadsAsZero ==
    /\ RUN_NUMBER_KEY \in DOMAIN environ
    /\ IsIntLiteral(environ[RUN_NUMBER_KEY])
    /\ IntLiteralValue(environ[RUN_NUMBER_KEY]) = 0

\* C22: the canonical URL is selected only by the exact text "0": a counter
\* text that parses to zero but is not "0" ("00", "-0") takes the rotating
\* branch and gives the URL with suffix "030", not the canonical URL.
C22_OnlyTextZeroIsCanonical ==
    /\ (phase # "init" /\ CounterReadsAsZero
                       /\ environ[RUN_NUMBER_KEY] # "0")
          => /\ phase = "loaded"
             /\ BASE_URL = ROTATING_PREFIX \o "030"
             /\ BASE_URL # CANONICAL_URL
             /\ repo_number = "030"
             /\ "run_index" \in defined
    /\ (phase = "loaded" /\ BASE_URL = CANONICAL_URL)
          => (environ = EnvUnset \/ environ = EnvSet("0"))

\* the module was imported with the counter "-0" and chose mirror 030
C22_Witness ==
    /\ environ = EnvSet("-0")
    /\ phase = "loaded"
    /\ run_number = "-0"
    /\ BASE_URL = ROTATING_PREFIX \o "030"


\* what the builder fn returns for args in the run whose counter is unset,
\* where BASE_URL is the canonical URL
CanonicalRunOutput(fn, args) == Evaluate(fn, args, SCOPE_FILES_LITERAL)

\* C23: the output of each of the four builders does not depend on the run
\* counter or on BASE_URL: whatever GITHUB_RUN_NUMBER the module was loaded
\* with, a builder returns for an input string what it returns for it in
\* the run whose counter is unset.
C23_BuildersIgnoreRunCounter ==
    (/\ call.fn \in BuilderNames
     /\ call.args[1].t = "str")
        => result = CanonicalRunOutput(call.fn, call.args)

\* a module loaded on the rotating branch returned for a path in quotes the
\* question prompt of the canonical run
C23_Witness ==
    /\ environ = EnvSet("31")
    /\ BASE_URL # CANONICAL_URL
    /\ PromptOf("question_generator")
    /\ call.args[1].s
          = SQ \o "contract/AElf.Contracts.Vote/VoteExtensions.cs" \o SQ
    /\ result = CanonicalRunOutput(call.fn, call.args)


RECURSIVE TotalLength(_, _)
\* the length of segs[1] segs[2] ... segs[k] together
TotalLength(segs, k) ==
    IF k = 0 THEN 0 ELSE TotalLength(segs, k - 1) + Len(segs[k])

\* the input read off a prompt alone: with the constant text of segs around
\* k copies of it, its length is (Len(text) - constant) / k and it stands
\* right after the first segment
RecoveredLength(text, segs) ==
    (Len(text) - TotalLength(segs, Len(segs))) \div (Len(segs) - 1)
RecoveredInput(text, segs) ==
    SubSeq(text, Len(segs[1]) + 1,
           Len(segs[1]) + RecoveredLength(text, segs))

\* the length of text is the constant of segs plus k times the length of x,
\* and x is what is read off text
RecoversInput(text, segs, k, x) ==
    /\ Len(segs) - 1 = k
    /\ Len(text) = TotalLength(segs, Len(segs)) + k * Len(x)
    /\ RecoveredInput(text, segs) = x

\* C24: each of the four builders is injective in its input: the input can
\* be recovered from the output alone, whose length is a constant plus k
\* times the length of the input, with k = 6, 1, 2, 1 for
\* question_generator, validation_format, audit_format, scan_format; so two
\* different inputs never give the same output.
C24_BuildersInjective ==
    /\ PromptOf("question_generator")
          => RecoversInput(result.value.s,
                           <<QG_1, QG_2, QG_3, QG_4, QG_5, QG_6, QG_7>>,
                           6, call.args[1].s)
    /\ PromptOf("validation_format")
          => RecoversInput(result.value.s, <<VF_1, ValidationSuffix>>,
                           1, call.args[1].s)
    /\ PromptOf("audit_format")
          => RecoversInput(result.value.s, <<AF_1, AF_2, AF_3>>,
                           2, call.args[1].s)
    /\ PromptOf("scan_format")
          => RecoversInput(result.value.s, <<SCF_1, SCF_2>>,
                           1, call.args[1].s)

\* the two-word report of a scan prompt was read back from the prompt
C24_Witness ==
    /\ PromptOf("scan_format")
    /\ call.args[1].s
          = "a" \o SQ \o "contract/AElf.Contracts.Vote/VoteExtensions.cs"
                \o SQ
    /\ RecoveredInput(result.value.s, <<SCF_1, SCF_2>>) = call.args[1].s


\* how many times needle occurs in s
CountIn(s, needle) ==
    Cardinality({p \in 1..(Len(s) - Len(needle) + 1) :
                    OccursAt(s, needle, p)})

\* how many times needle, a text in braces, occurs in a prompt whose text
\* after position headLen may be the long suffix of the validation prompts:
\* that suffix has no brace, so no occurrence lies in it or ends in it
CountInPrompt(text, headLen, needle) ==
    IF /\ SubSeq(text, headLen + 1, Len(text)) = ValidationSuffix
       /\ ~ValidationSuffixHoldsBrace
    THEN CountIn(SubSeq(text, 1, headLen), needle)
    ELSE CountIn(text, needle)

\* the list of the source as a prompt shows it
ScopeListRendering ==
    "[" \o JoinRendered(SCOPE_FILES_LITERAL, 1, 316) \o "]"

\* C25: substitution is single-pass: an input that holds text like a field
\* is shown as it is and never expanded. A validation or scan prompt has
\* the text {scope_files} as often as its input has it, and
\* validation_format("{scope_files}") has the rendering of the list once
\* and the text {scope_files} once.
C25_SubstitutionSinglePass ==
    /\ PromptOf("validation_format")
          => CountInPrompt(result.value.s,
                           Len(VF_1) + Len(call.args[1].s), "{scope_files}")
                = CountIn(call.args[1].s, "{scope_files}")
    /\ PromptOf("scan_format")
          => CountIn(result.value.s, "{scope_files}")
                = CountIn(call.args[1].s, "{scope_files}")
    /\ (PromptOf("validation_format") /\ call.args[1].s = "{scope_files}")
          => /\ CountInPrompt(result.value.s,
                              Len(VF_1) + Len("{scope_files}"),
                              "{scope_files}") = 1
             /\ CountIn(result.value.s, ScopeListRendering) = 1

\* validation_format was called with the text of its list field
C25_Witness ==
    /\ PromptOf("validation_format")
    /\ call.args[1].s = "{scope_files}"
    /\ OccursAt(result.value.s, "{scope_files}", Len(VF_1) + 1)
    /\ CountIn(result.value.s, ScopeListRendering) = 1


\* the client has called get_cyclic_index(run) with an int run and no
\* max_index
IndexCallWithoutMax ==
    /\ call.fn = "get_cyclic_index"
    /\ Len(call.args) = 1
    /\ call.args[1].t = "int"

\* C26: when get_cyclic_index is called without a maximum the bound is 100
\* and not MAX_REPO: for every integer run the result is
\* ((run - 1) mod 100) + 1, in 1..100, and whenever it exceeds 30 it is not
\* the index the module body computes for the same run with MAX_REPO.
C26_DefaultBoundIsHundred ==
    IndexCallWithoutMax
        => /\ result.raised = ""
           /\ result.value.t = "int"
           /\ result.value.n \in 1..100
           /\ Congruent(call.args[1].n - 1, result.value.n - 1, 100)
           /\ (result.value.n > 30
                  => result # get_cyclic_index(call.args[1], MAX_REPO))

\* get_cyclic_index(0) returned 100 where the bound of the URL gives 30
C26_Witness ==
    /\ call = [fn |-> "get_cyclic_index", args |-> <<PyIntV(0)>>]
    /\ result = Returned(PyIntV(100))
    /\ get_cyclic_index(PyIntV(0), MAX_REPO) = Returned(PyIntV(30))


====
